---------------------------- MODULE Spec2Model ----------------------------
(***************************************************************************)
(* A model of the two scripts of medlaunch-aws-athena-pipeline:            *)
(*                                                                         *)
(*   lambda/start_ec2_on_upload.py   the upload trigger handler            *)
(*   lambda/ec2/athena_pipeline.py   the pipeline runner                   *)
(*                                                                         *)
(* The cloud services (EC2, Athena, S3, the instance metadata endpoint)    *)
(* are the environment: every call to them either answers or raises, and   *)
(* what it answers is chosen nondeterministically.                         *)
(***************************************************************************)
EXTENDS Integers, Sequences, FiniteSets, TLC

VARIABLES
    \* ---- start_ec2_on_upload.py ----
    INSTANCE_ID,    \* the module-level setting read from the environment
    event,          \* event[i]: the notification event of invocation i
    hpc,            \* hpc[i]: where invocation i of lambda_handler stands
    hres,           \* hres[i]: what invocation i returned or raised
    observed,       \* observed[i]: the instance state describe_instances gave
    hcnt,           \* hcnt[i]: the calls invocation i has issued so far
    inst_state,     \* the lifecycle state of the instance, held by EC2
    \* ---- athena_pipeline.py ----
    BUCKET,         \* the module-level setting (after `or "YOUR_S3_BUCKET"`)
    ATHENA_OUTPUT,  \* the module-level setting: where Athena writes results
    ppc,            \* where main() / wait_for_query stands
    step,           \* the query main() is at: 1 database, 2 table, 3 Stage-3
    qid,            \* the execution id wait_for_query polls
    timeout_sec,    \* wait_for_query's timeout_sec
    elapsed,        \* time.time() - start inside wait_for_query
    npolls,         \* get_query_execution calls of the current wait_for_query
    lastobs,        \* the poll that ended wait_for_query: what it saw, and when
    wres,           \* the outcome of wait_for_query
    qids,           \* qids[k]: the id Athena gave to query k ("none" before)
    qstatus,        \* qstatus[k]: "none", "submitted" or the terminal state seen
    main_qid,       \* main()'s local qid, "none" until line 125 assigns it
    pcalls,         \* the service calls main() has issued, in order
    plog,           \* the [WARN] lines printed
    pres            \* how main() ended: "none", "ok" or the error raised

hvars == <<INSTANCE_ID, event, hpc, hres, observed, hcnt, inst_state>>
pvars == <<BUCKET, ATHENA_OUTPUT, ppc, step, qid, timeout_sec, elapsed, npolls, lastobs,
           wres, qids, qstatus, main_qid, pcalls, plog, pres>>
vars == <<hvars, pvars>>

-----------------------------------------------------------------------------
(* Bounds of the model.                                                    *)

\* The longest Records list of an event.
MaxRecords == 2
\* The longest a single get_query_execution call takes, in seconds.
MaxLatency == 1
\* The largest timeout_sec handed to wait_for_query on its own.
MaxTimeout == 5

-----------------------------------------------------------------------------
(* Strings, as Python sees them: sequences of characters.                  *)

UpperToLower ==
    [c \in {"A", "J", "N", "O", "R", "S", "W"} |->
        CASE c = "A" -> "a" [] c = "J" -> "j" [] c = "N" -> "n"
          [] c = "O" -> "o" [] c = "R" -> "r" [] c = "S" -> "s"
          [] c = "W" -> "w"]

\* str.lower(), on the letters the keys below are made of.
lower(s) ==
    [k \in 1..Len(s) |->
        IF s[k] \in DOMAIN UpperToLower THEN UpperToLower[s[k]] ELSE s[k]]

\* str.startswith(p)
startswith(s, p) ==
    /\ Len(p) <= Len(s)
    /\ SubSeq(s, 1, Len(p)) = p

\* str.endswith(p)
endswith(s, p) ==
    /\ Len(p) <= Len(s)
    /\ SubSeq(s, Len(s) - Len(p) + 1, Len(s)) = p

RawPrefix == <<"r", "a", "w", "/">>
JsonSuffix == <<".", "j", "s", "o", "n">>


-----------------------------------------------------------------------------
(* start_ec2_on_upload.py: settings and inputs.                            *)

\* The invocations of lambda_handler the model follows.
Invocations == {"a", "b"}

\* os.getenv("INSTANCE_ID"): None when unset, else the string set.
InstanceIdSettings == {"None", "", "i-0abc"}

\* A test that takes only None for unset: "is not None" in place of "not x".
is_not_none(x) == x # "None"

\* Python truthiness of a setting: None and the empty string are falsy.
truthy(x) == x \notin {"None", ""}

\* The lifecycle states EC2 reports for an instance.
InstanceStates ==
    {"pending", "running", "stopping", "stopped", "shutting-down", "terminated"}

\* WaiterConfig={"Delay": 10, "MaxAttempts": 30}
Delay == 10
MaxAttempts == 30

K_json == <<"r", "a", "w", "/", "a", ".", "j", "s", "o", "n">>
K_JSON == <<"r", "a", "w", "/", "a", ".", "J", "S", "O", "N">>
K_csv == <<"r", "a", "w", "/", "a", ".", "c", "s", "v">>
K_RAW == <<"R", "A", "W", "/", "a", ".", "j", "s", "o", "n">>
K_short == <<".", "j", "s", "o", "n">>

Keys == {K_json, K_JSON, K_csv, K_RAW, K_short}

\* One element of event["Records"].  dict = FALSE is an element that is no
\* dict (rec.get raises); source "MISSING" is a dict without "eventSource";
\* haskey = FALSE is a dict in which rec["s3"]["object"]["key"] raises.
Rec(d, src, hk, k) == [dict |-> d, source |-> src, haskey |-> hk, key |-> k]

RecordShapes ==
    {Rec(TRUE, "aws:s3", TRUE, k) : k \in Keys}
        \cup {Rec(TRUE, "aws:s3", FALSE, <<>>),
              Rec(TRUE, "aws:sqs", TRUE, K_json),
              Rec(TRUE, "MISSING", TRUE, K_json),
              Rec(FALSE, "MISSING", FALSE, <<>>)}

RecordLists == UNION {[1..n -> RecordShapes] : n \in 0..MaxRecords}

\* An event.  shape "no_records" is a dict without "Records", "records_null"
\* a dict whose "Records" is None, "not_a_dict" an event that has no .get.
Events ==
    {[shape |-> "list", records |-> rs] : rs \in RecordLists}
        \cup {[shape |-> sh, records |-> <<>>] :
                 sh \in {"no_records", "records_null", "not_a_dict"}}

-----------------------------------------------------------------------------
(* _should_process, lines 12-22.  A Python evaluation either gives a value *)
(* or raises: "True", "False" or "Raise".                                  *)

\* record_test with the raw/ prefix test of line 18 left out.
record_test_any_prefix(rec) ==
    IF ~rec.dict THEN "Raise"
    ELSE IF rec.source # "aws:s3" THEN "False"
    ELSE IF ~rec.haskey THEN "Raise"
    ELSE IF endswith(lower(rec.key), JsonSuffix) THEN "True"
    ELSE "False"

\* Lines 16-19 for one record.
record_test(rec) ==
    IF ~rec.dict THEN "Raise"                       \* rec.get: AttributeError
    ELSE IF rec.source # "aws:s3" THEN "False"
    ELSE IF ~rec.haskey THEN "Raise"                \* rec["s3"]...: KeyError
    ELSE IF startswith(rec.key, RawPrefix) /\ endswith(lower(rec.key), JsonSuffix)
         THEN "True"
    ELSE "False"

\* The for loop of lines 15-19 from record k on: the first record that
\* qualifies returns True, the first that raises ends the loop.
RECURSIVE scan_records(_, _)
scan_records(recs, k) ==
    IF k > Len(recs) THEN "False"
    ELSE LET r == record_test(recs[k])
         IN  IF r = "False" THEN scan_records(recs, k + 1) ELSE r

\* The body of the try block, lines 15-19, then line 22.
try_body(ev) ==
    CASE ev.shape = "not_a_dict"   -> "Raise"       \* event.get
      [] ev.shape = "records_null" -> "Raise"       \* iterating None
      [] ev.shape = "no_records"   -> "False"       \* .get("Records", [])
      [] OTHER                     -> scan_records(ev.records, 1)

\* _should_process without its try/except: what the body raises gets out.
should_process_unguarded(ev) == try_body(ev)

\* try: ... except Exception: pass; return False
_should_process(ev) ==
    LET r == try_body(ev)
    IN  IF r = "Raise" THEN "False" ELSE r

-----------------------------------------------------------------------------
(* lambda_handler, lines 24-48.                                            *)

NoResult ==
    [kind |-> "none", ok |-> FALSE, skipped |-> "absent",
     instance |-> "absent", error |-> "none"]

\* return {"ok": True, "skipped": True}
SkippedResult ==
    [kind |-> "return", ok |-> TRUE, skipped |-> "True",
     instance |-> "absent", error |-> "none"]

\* return {"ok": True, "instance": INSTANCE_ID}
OkResult(id) ==
    [kind |-> "return", ok |-> TRUE, skipped |-> "absent",
     instance |-> id, error |-> "none"]

\* An exception leaving lambda_handler.
RaisedResult(err) ==
    [kind |-> "raise", ok |-> FALSE, skipped |-> "absent",
     instance |-> "absent", error |-> err]

\* What an invocation has done so far: the calls of each kind it issued, the
\* id its start request named, the polls that saw the status checks pass,
\* the seconds the waiter slept, the lines it printed.
NoCalls ==
    [filter |-> 0, describe |-> 0, start |-> 0, target |-> "none", polls |-> 0,
     healthy |-> 0, slept |-> 0, logs |-> 0]

\* needs_start for a handler that starts a stopped instance only.
needs_start_stopped_only(state) == state = "stopped"

\* Line 38: state in ("stopped", "stopping")
needs_start(state) == state \in {"stopped", "stopping"}

\* except ClientError as e: print(...); raise  (lines 46-48).  A WaiterError
\* is a BotoCoreError, not a ClientError: the clause lets it pass unlogged.
logged_by_handler(err) == err = "ClientError"

Fail(i, err) ==
    /\ hres' = [hres EXCEPT ![i] = RaisedResult(err)]
    /\ hpc' = [hpc EXCEPT ![i] = "raised"]

\* Lines 25-30: the configuration check, then the filter.
Enter(i) ==
    /\ hpc[i] = "entry"
    /\ IF ~truthy(INSTANCE_ID)
       THEN /\ Fail(i, "RuntimeError")
            /\ UNCHANGED hcnt
       ELSE /\ hcnt' = [hcnt EXCEPT ![i].filter = @ + 1]
            /\ LET r == _should_process(event[i])
               IN  CASE r = "True" ->
                          /\ hpc' = [hpc EXCEPT ![i] = "describe"]
                          /\ UNCHANGED hres
                     [] r = "False" ->
                          /\ hres' = [hres EXCEPT ![i] = SkippedResult]
                          /\ hpc' = [hpc EXCEPT ![i] = "returned"]
                     [] OTHER ->      \* line 28 is outside the try of line 32
                          Fail(i, "Exception")
    /\ UNCHANGED <<INSTANCE_ID, event, observed, inst_state>>
    /\ UNCHANGED pvars

\* Lines 34-38: describe_instances answers with the state EC2 holds, or
\* raises a ClientError, which lines 46-48 log and re-raise.
DescribeInstances(i) ==
    /\ hpc[i] = "describe"
    /\ \/ /\ observed' = [observed EXCEPT ![i] = inst_state]
          /\ hcnt' = [hcnt EXCEPT ![i].describe = @ + 1]
          /\ hpc' = [hpc EXCEPT ![i] =
                        IF needs_start(inst_state) THEN "start" ELSE "wait"]
          /\ UNCHANGED hres
       \/ /\ hcnt' = [hcnt EXCEPT ![i].describe = @ + 1,
                                  ![i].logs = @ + (IF logged_by_handler("ClientError")
                                                   THEN 1 ELSE 0)]
          /\ Fail(i, "ClientError")
          /\ UNCHANGED observed
    /\ UNCHANGED <<INSTANCE_ID, event, inst_state>>
    /\ UNCHANGED pvars

\* A handler that asks again when EC2 refuses its start request.
StartInstancesRetried(i) ==
    /\ hpc[i] = "start"
    /\ hcnt[i].start < 3
    /\ hcnt' = [hcnt EXCEPT ![i].start = @ + 1, ![i].target = INSTANCE_ID]
    /\ \/ /\ inst_state' = IF inst_state = "stopped" THEN "pending" ELSE inst_state
          /\ hpc' = [hpc EXCEPT ![i] = "wait"]
       \/ UNCHANGED <<inst_state, hpc>>
    /\ UNCHANGED <<INSTANCE_ID, event, observed, hres>>
    /\ UNCHANGED pvars

\* Line 39: start_instances is accepted (a stopped instance goes to
\* pending) or raises a ClientError (EC2 refuses, e.g. IncorrectInstanceState
\* for an instance that is still stopping).
StartInstances(i) ==
    /\ hpc[i] = "start"
    /\ \/ /\ inst_state' = IF inst_state = "stopped" THEN "pending" ELSE inst_state
          /\ hcnt' = [hcnt EXCEPT ![i].start = @ + 1, ![i].target = INSTANCE_ID]
          /\ hpc' = [hpc EXCEPT ![i] = "wait"]
          /\ UNCHANGED hres
       \/ /\ hcnt' = [hcnt EXCEPT ![i].start = @ + 1, ![i].target = INSTANCE_ID,
                                  ![i].logs = @ + (IF logged_by_handler("ClientError")
                                                   THEN 1 ELSE 0)]
          /\ Fail(i, "ClientError")
          /\ UNCHANGED inst_state
    /\ UNCHANGED <<INSTANCE_ID, event, observed>>
    /\ UNCHANGED pvars

\* A waiter that counts one poll too many before it gives up.
attempts_exhausted_late(n) == n > MaxAttempts

\* The waiter gives up once this many polls have been made.
attempts_exhausted(n) == n >= MaxAttempts

\* Lines 42-45: one poll of the instance_status_ok waiter.  The poll sees
\* the status checks pass (possible only for a running instance) and the
\* handler returns; or it does not, and the waiter sleeps Delay seconds or,
\* after MaxAttempts polls, raises WaiterError; or the poll itself fails,
\* which the waiter turns into a WaiterError.
WaiterPoll(i) ==
    /\ hpc[i] = "wait"
    /\ \/ /\ inst_state = "running"
          /\ hcnt' = [hcnt EXCEPT ![i].polls = @ + 1, ![i].healthy = @ + 1]
          /\ hres' = [hres EXCEPT ![i] = OkResult(INSTANCE_ID)]
          /\ hpc' = [hpc EXCEPT ![i] = "returned"]
       \/ /\ ~attempts_exhausted(hcnt[i].polls + 1)
          /\ hcnt' = [hcnt EXCEPT ![i].polls = @ + 1, ![i].slept = @ + Delay]
          /\ UNCHANGED <<hres, hpc>>
       \/ /\ attempts_exhausted(hcnt[i].polls + 1)
          /\ hcnt' = [hcnt EXCEPT ![i].polls = @ + 1,
                                  ![i].logs = @ + (IF logged_by_handler("WaiterError")
                                                   THEN 1 ELSE 0)]
          /\ Fail(i, "WaiterError")
       \/ /\ hcnt' = [hcnt EXCEPT ![i].polls = @ + 1,
                                  ![i].logs = @ + (IF logged_by_handler("WaiterError")
                                                   THEN 1 ELSE 0)]
          /\ Fail(i, "WaiterError")
    /\ UNCHANGED <<INSTANCE_ID, event, observed, inst_state>>
    /\ UNCHANGED pvars

\* EC2 itself: an instance that was started comes up, one that was being
\* stopped comes to rest.
EC2Progress ==
    /\ \E i \in Invocations : hpc[i] \in {"describe", "start", "wait"}
    /\ \/ inst_state = "pending" /\ inst_state' = "running"
       \/ inst_state = "stopping" /\ inst_state' = "stopped"
    /\ UNCHANGED <<INSTANCE_ID, event, hpc, hres, observed, hcnt>>
    /\ UNCHANGED pvars

-----------------------------------------------------------------------------
(* athena_pipeline.py: settings.                                           *)

Sentinel == "YOUR_S3_BUCKET"

\* What the environment may hold for BUCKET.
BucketEnv == {"None", "", Sentinel, "my-bucket"}

\* Line 13: os.getenv("BUCKET") or "YOUR_S3_BUCKET"
bucket_setting(env) == IF truthy(env) THEN env ELSE Sentinel

\* What the environment may hold for ATHENA_OUTPUT.
OutputEnv == {"None", "", "s3://other-bucket/custom-results/"}

\* Line 15: os.getenv("ATHENA_OUTPUT") or f"s3://{BUCKET}/athena-results/",
\* a string kept as the list of its pieces.
output_setting(env, bucket) ==
    IF truthy(env) THEN <<env>> ELSE <<"s3://", bucket, "/athena-results/">>

PROD_PREFIX == "output/prod/"
DATABASE == "healthcare_db"

\* wait_for_query's default timeout_sec (line 62) and its sleep (line 74).
DefaultTimeout == 300
SleepSec == 2

\* The ids Athena hands out; it never gives the same id twice.
QueryIds == {"q-1", "q-2", "q-3"}

\* The states get_query_execution reports.
TerminalStates == {"SUCCEEDED", "FAILED", "CANCELLED"}
QueryStates == {"QUEUED", "RUNNING"} \cup TerminalStates

\* A get_query_execution outcome: the call raises (error), or answers with
\* a state and, possibly, a StateChangeReason ("ABSENT" when the key is not
\* in the answer).
Response(err, st, rsn) == [error |-> err, state |-> st, reason |-> rsn]

Responses ==
    {Response(FALSE, st, "ABSENT") : st \in QueryStates}
        \cup {Response(FALSE, st, "SYNTAX_ERROR") : st \in {"FAILED", "CANCELLED"}}
        \cup {Response(TRUE, "none", "ABSENT")}

NoResponse == Response(FALSE, "none", "ABSENT")

NoPoll == [resp |-> NoResponse, at |-> 0]

-----------------------------------------------------------------------------
(* wait_for_query, lines 62-74.                                            *)

\* What one turn of the loop, or the whole call, comes to.
Outcome(k, t, id, st, rsn, pl) ==
    [kind |-> k, type |-> t, qid |-> id, state |-> st, reason |-> rsn,
     payload |-> pl]

NoOutcome == Outcome("none", "none", "none", "none", "none", NoResponse)

\* Line 69: .get("StateChangeReason", "Unknown")
state_change_reason(resp) ==
    IF resp.reason = "ABSENT" THEN "Unknown" ELSE resp.reason

\* The clock test with >= in place of >.
timed_out_at_bound(el, to) == el >= to

\* Line 72: time.time() - start > timeout_sec
timed_out(el, to) == el > to

\* A turn of the loop that reads the clock before it looks at the state.
wait_iteration_clock_first(resp, el, to, id) ==
    IF resp.error
    THEN Outcome("raise", "ClientError", id, "none", "none", NoResponse)
    ELSE IF timed_out(el, to)
    THEN Outcome("raise", "TimeoutError", id, "none", "none", NoResponse)
    ELSE IF resp.state \in TerminalStates
    THEN IF resp.state # "SUCCEEDED"
         THEN Outcome("raise", "RuntimeError", id, resp.state,
                      state_change_reason(resp), NoResponse)
         ELSE Outcome("return", "none", "none", "none", "none", resp)
    ELSE Outcome("sleep", "none", "none", "none", "none", NoResponse)

\* Lines 65-74, one turn of the loop: resp is what get_query_execution did,
\* el the time since start when line 72 reads the clock.
wait_iteration(resp, el, to, id) ==
    IF resp.error
    THEN Outcome("raise", "ClientError", id, "none", "none", NoResponse)
    ELSE IF resp.state \in TerminalStates
    THEN IF resp.state # "SUCCEEDED"
         THEN Outcome("raise", "RuntimeError", id, resp.state,
                      state_change_reason(resp), NoResponse)
         ELSE Outcome("return", "none", "none", "none", "none", resp)
    ELSE IF timed_out(el, to)
    THEN Outcome("raise", "TimeoutError", id, "none", "none", NoResponse)
    ELSE Outcome("sleep", "none", "none", "none", "none", NoResponse)

\* A loop that reads start anew on every turn: the time slept is forgotten.
after_sleep_restarted(now) == 0

\* Line 74, time.sleep(2): the time since start at the top of the next turn.
after_sleep(now) == now + SleepSec

\* Where control goes when wait_for_query returns: on its own (step 0) the
\* call is over; inside run_query, main() goes on to the next statement.
after_return(st) ==
    IF st = 0 THEN "wait_done" ELSE IF st < 3 THEN "submit" ELSE "copy"

\* One turn of the loop.  Nothing in run_query or main() catches what
\* wait_for_query raises, so a raise ends main() too.  When the call is over
\* inside main() its locals (start, the poll count) are gone with its frame;
\* on its own they are kept, to be looked at.
WaitPoll ==
    /\ ppc = "poll"
    /\ \E lat \in 0..MaxLatency, resp \in Responses :
         LET now == elapsed + lat
             out == wait_iteration(resp, now, timeout_sec, qid)
             over == out.kind # "sleep"
         IN  /\ npolls' = IF over /\ step > 0 THEN 0 ELSE npolls + 1
             /\ elapsed' = IF ~over THEN after_sleep(now)
                           ELSE IF step > 0 THEN 0 ELSE now
             /\ lastobs' = IF over /\ step = 0
                           THEN [resp |-> resp, at |-> now]
                           ELSE lastobs
             /\ wres' = IF over THEN out ELSE wres
             /\ qstatus' = IF step > 0 /\ ~resp.error /\ resp.state \in TerminalStates
                           THEN [qstatus EXCEPT ![step] = resp.state]
                           ELSE qstatus
             /\ CASE out.kind = "sleep" ->
                       UNCHANGED <<ppc, step, pres, main_qid>>
                  [] out.kind = "return" ->
                       /\ ppc' = after_return(step)
                       /\ step' = IF step \in 1..2 THEN step + 1 ELSE step
                       /\ main_qid' = IF step = 3 THEN qid ELSE main_qid
                       /\ UNCHANGED pres
                  [] out.kind = "raise" ->
                       /\ ppc' = IF step = 0 THEN "wait_done" ELSE "failed"
                       /\ pres' = IF step = 0 THEN pres ELSE out.type
                       /\ UNCHANGED <<step, main_qid>>
    /\ UNCHANGED <<BUCKET, ATHENA_OUTPUT, qid, timeout_sec, qids, pcalls, plog>>
    /\ UNCHANGED hvars

-----------------------------------------------------------------------------
(* run_query, copy_athena_csv_to_prod, terminate_self and main.            *)

\* A service call as main() issues it: the operation and its arguments.
\* start_query_execution: the statement and the database, the output
\* location.  copy_object: the source bucket and key, the destination bucket
\* and key.  terminate_instances: the instance id.
Call(op, a, b) == [op |-> op, a |-> a, b |-> b]

\* The statement of each step and the database keyword it is run with
\* (lines 119, 122, 125).
sql_of(st) ==
    CASE st = 1 -> "CREATE_DB_SQL" [] st = 2 -> "CREATE_TABLE_SQL"
      [] OTHER -> "STAGE3_SQL"

database_of(st) == IF st = 1 THEN "None" ELSE DATABASE

\* str.replace(old, ""), on strings kept as lists of pieces.
RECURSIVE replace_away(_, _)
replace_away(str, old) ==
    IF Len(str) < Len(old) \/ Len(old) = 0 THEN str
    ELSE IF SubSeq(str, 1, Len(old)) = old
         THEN replace_away(SubSeq(str, Len(old) + 1, Len(str)), old)
         ELSE <<Head(str)>> \o replace_away(Tail(str), old)

\* A source key made from the id of the first statement main() submitted.
src_key_of_first_statement(id) == <<"athena-results/", qids[1], ".csv">>

\* Line 93: f"athena-results/{qid}.csv".replace(f"s3://{BUCKET}/", "")
src_key(id) ==
    replace_away(<<"athena-results/", id, ".csv">>, <<"s3://", BUCKET, "/">>)

\* Lines 128-129; ts is utcnow() formatted "%Y%m%d_%H%M%S".
dest_key(ts) == <<PROD_PREFIX, "state_counts_", ts, ".csv">>

Timestamps == {"20240101_000000", "20241231_235959"}

\* A main() whose last step stands in a finally clause: the error is kept
\* and terminate_self() runs all the same.
MainFailsThenTerminates(err) ==
    /\ ppc' = "terminate_self"
    /\ pres' = err

\* raise ... leaving main()
MainFails(err) ==
    /\ ppc' = "failed"
    /\ pres' = err

\* A placeholder test that looks for an empty setting, not the sentinel.
is_placeholder_empty(b) == b = ""

\* Line 115: BUCKET == "YOUR_S3_BUCKET"
is_placeholder(b) == b = Sentinel

\* Lines 112-116.
Validate ==
    /\ ppc = "main"
    /\ IF is_placeholder(BUCKET)
       THEN /\ MainFails("RuntimeError")
            /\ UNCHANGED step
       ELSE /\ ppc' = "submit"
            /\ step' = 1
            /\ UNCHANGED pres
    /\ UNCHANGED <<BUCKET, ATHENA_OUTPUT, qid, timeout_sec, elapsed, npolls, lastobs, wres,
                   qids, qstatus, main_qid, pcalls, plog>>
    /\ UNCHANGED hvars

\* run_query without line 88: the statement is submitted and main() goes on
\* at once, nobody waiting for the query to end.
SubmitWithoutWait ==
    /\ ppc = "submit"
    /\ pcalls' = Append(pcalls, Call("start_query_execution",
                                     <<sql_of(step), database_of(step)>>,
                                     ATHENA_OUTPUT))
    /\ \/ /\ MainFails("ClientError")
          /\ UNCHANGED <<qid, qids, qstatus, step, main_qid>>
       \/ \E id \in QueryIds \ {qids[k] : k \in 1..3} :
            /\ qid' = id
            /\ qids' = [qids EXCEPT ![step] = id]
            /\ qstatus' = [qstatus EXCEPT ![step] = "submitted"]
            /\ ppc' = after_return(step)
            /\ step' = IF step \in 1..2 THEN step + 1 ELSE step
            /\ main_qid' = IF step = 3 THEN id ELSE main_qid
            /\ UNCHANGED pres
    /\ UNCHANGED <<BUCKET, ATHENA_OUTPUT, timeout_sec, elapsed, npolls, lastobs, wres, plog>>
    /\ UNCHANGED hvars

\* Lines 77-88 for the statement of the current step: start_query_execution
\* raises, or gives an id and wait_for_query(qid) begins (start = time.time()).
SubmitQuery ==
    /\ ppc = "submit"
    /\ pcalls' = Append(pcalls, Call("start_query_execution",
                                     <<sql_of(step), database_of(step)>>,
                                     ATHENA_OUTPUT))
    /\ \/ /\ MainFails("ClientError")
          /\ UNCHANGED <<qid, timeout_sec, elapsed, npolls, lastobs, wres, qids,
                         qstatus>>
       \/ \E id \in QueryIds \ {qids[k] : k \in 1..3} :
            /\ qid' = id
            /\ qids' = [qids EXCEPT ![step] = id]
            /\ qstatus' = [qstatus EXCEPT ![step] = "submitted"]
            /\ timeout_sec' = DefaultTimeout
            /\ elapsed' = 0
            /\ npolls' = 0
            /\ lastobs' = NoPoll
            /\ wres' = NoOutcome
            /\ ppc' = "poll"
            /\ UNCHANGED pres
    /\ UNCHANGED <<BUCKET, ATHENA_OUTPUT, step, main_qid, plog>>
    /\ UNCHANGED hvars

\* Lines 128-133 and 93-98: copy_object, from and to BUCKET, raises, or the
\* copy is made.
CopyResult ==
    /\ ppc = "copy"
    /\ \E ts \in Timestamps :
         pcalls' = Append(pcalls, Call("copy_object",
                                      <<BUCKET>> \o src_key(main_qid),
                                      <<BUCKET>> \o dest_key(ts)))
    /\ \/ MainFails("ClientError")
       \/ /\ ppc' = "terminate_self"
          /\ UNCHANGED pres
    /\ UNCHANGED <<BUCKET, ATHENA_OUTPUT, step, qid, timeout_sec, elapsed, npolls, lastobs, wres,
                   qids, qstatus, main_qid, plog>>
    /\ UNCHANGED hvars

\* terminate_self without its except clause: the exception gets out.
on_terminate_error_raise == "raise"

\* What the except clause of terminate_self does with an exception raised
\* inside it: "warn" prints the [WARN] line and returns.
on_terminate_error == "warn"

TerminateError(err) ==
    IF on_terminate_error = "warn"
    THEN /\ plog' = Append(plog, err)
         /\ ppc' = "done"
         /\ pres' = "ok"
    ELSE /\ MainFails(err)
         /\ UNCHANGED plog

\* Lines 100-109 and the end of main(): the metadata lookup fails; or it
\* gives the id and terminate_instances raises; or both succeed.
TerminateSelf ==
    /\ ppc = "terminate_self"
    /\ \/ /\ pcalls' = Append(pcalls, Call("urlopen", <<"instance-id">>, <<>>))
          /\ TerminateError("URLError")
       \/ /\ pcalls' = pcalls \o <<Call("urlopen", <<"instance-id">>, <<>>),
                                   Call("terminate_instances", <<"i-self">>, <<>>)>>
          /\ TerminateError("ClientError")
       \/ /\ pcalls' = pcalls \o <<Call("urlopen", <<"instance-id">>, <<>>),
                                   Call("terminate_instances", <<"i-self">>, <<>>)>>
          /\ ppc' = "done"
          /\ pres' = "ok"
          /\ UNCHANGED plog
    /\ UNCHANGED <<BUCKET, ATHENA_OUTPUT, step, qid, timeout_sec, elapsed, npolls, lastobs, wres,
                   qids, qstatus, main_qid>>
    /\ UNCHANGED hvars

-----------------------------------------------------------------------------
(* The specifications.                                                     *)

HandlerIdle ==
    /\ INSTANCE_ID = "None"
    /\ event = [i \in Invocations |-> [shape |-> "no_records", records |-> <<>>]]
    /\ hpc = [i \in Invocations |-> "idle"]
    /\ hres = [i \in Invocations |-> NoResult]
    /\ observed = [i \in Invocations |-> "none"]
    /\ hcnt = [i \in Invocations |-> NoCalls]
    /\ inst_state = "stopped"

PipelineIdle ==
    /\ BUCKET = Sentinel
    /\ ATHENA_OUTPUT = output_setting("None", Sentinel)
    /\ ppc = "idle"
    /\ step = 0
    /\ qid = "none"
    /\ timeout_sec = 0
    /\ elapsed = 0
    /\ npolls = 0
    /\ lastobs = NoPoll
    /\ wres = NoOutcome
    /\ qids = [k \in 1..3 |-> "none"]
    /\ qstatus = [k \in 1..3 |-> "none"]
    /\ main_qid = "none"
    /\ pcalls = <<>>
    /\ plog = <<>>
    /\ pres = "none"

\* One invocation of lambda_handler, for any setting, event and instance.
InitHandler ==
    /\ INSTANCE_ID \in InstanceIdSettings
    /\ \E e \in Events :
         event = [i \in Invocations |->
                     IF i = "a" THEN e ELSE [shape |-> "no_records", records |-> <<>>]]
    /\ hpc = [i \in Invocations |-> IF i = "a" THEN "entry" ELSE "idle"]
    /\ hres = [i \in Invocations |-> NoResult]
    /\ observed = [i \in Invocations |-> "none"]
    /\ hcnt = [i \in Invocations |-> NoCalls]
    /\ inst_state \in InstanceStates
    /\ PipelineIdle

NextHandler ==
    \/ \E i \in Invocations : Enter(i)
    \/ \E i \in Invocations : DescribeInstances(i)
    \/ \E i \in Invocations : StartInstances(i)
    \/ \E i \in Invocations : WaiterPoll(i)
    \/ EC2Progress

SpecHandler == InitHandler /\ [][NextHandler]_vars

\* Two uploads, each a single record that passes the filter.
UploadEvents ==
    {e \in Events : /\ e.shape = "list"
                    /\ Len(e.records) = 1
                    /\ _should_process(e) = "True"}

\* Two invocations of lambda_handler at once, for the same instance: Lambda
\* runs one per upload and the handler takes no lock.
InitConcurrent ==
    /\ INSTANCE_ID = "i-0abc"
    /\ event \in [Invocations -> UploadEvents]
    /\ hpc = [i \in Invocations |-> "entry"]
    /\ hres = [i \in Invocations |-> NoResult]
    /\ observed = [i \in Invocations |-> "none"]
    /\ hcnt = [i \in Invocations |-> NoCalls]
    /\ inst_state \in InstanceStates
    /\ PipelineIdle

SpecConcurrent == InitConcurrent /\ [][NextHandler]_vars

\* One run of main(), for any BUCKET setting.
InitPipeline ==
    /\ HandlerIdle
    /\ BUCKET \in {bucket_setting(e) : e \in BucketEnv}
    /\ ATHENA_OUTPUT \in {output_setting(e, BUCKET) : e \in OutputEnv}
    /\ ppc = "main"
    /\ step = 0
    /\ qid = "none"
    /\ timeout_sec = 0
    /\ elapsed = 0
    /\ npolls = 0
    /\ lastobs = NoPoll
    /\ wres = NoOutcome
    /\ qids = [k \in 1..3 |-> "none"]
    /\ qstatus = [k \in 1..3 |-> "none"]
    /\ main_qid = "none"
    /\ pcalls = <<>>
    /\ plog = <<>>
    /\ pres = "none"

NextPipeline ==
    \/ Validate
    \/ SubmitQuery
    \/ WaitPoll
    \/ CopyResult
    \/ TerminateSelf

SpecPipeline == InitPipeline /\ [][NextPipeline]_vars

\* One call wait_for_query(qid, timeout_sec), for any id and timeout.
InitWait ==
    /\ HandlerIdle
    /\ BUCKET = "my-bucket"
    /\ ATHENA_OUTPUT = output_setting("None", "my-bucket")
    /\ ppc = "poll"
    /\ step = 0
    /\ qid \in QueryIds
    /\ timeout_sec \in 0..MaxTimeout
    /\ elapsed = 0
    /\ npolls = 0
    /\ lastobs = NoPoll
    /\ wres = NoOutcome
    /\ qids = [k \in 1..3 |-> "none"]
    /\ qstatus = [k \in 1..3 |-> "none"]
    /\ main_qid = "none"
    /\ pcalls = <<>>
    /\ plog = <<>>
    /\ pres = "none"

NextWait == WaitPoll

SpecWait == InitWait /\ [][NextWait]_vars

\* The same call when every get_query_execution comes back and the clock
\* goes on: a turn of the loop that can be taken is taken.
SpecWaitFair == SpecWait /\ WF_vars(WaitPoll)

-----------------------------------------------------------------------------
(* The claims about lambda_handler, checked under SpecHandler.             *)

\* The keys of Keys that are raw/*.json with the suffix in any case, listed
\* one by one.
QualifyingKeys == {K_json, K_JSON}

\* A record that qualifies: a storage record whose key is such a key.
qualifying(rec) ==
    /\ rec.dict
    /\ rec.source = "aws:s3"
    /\ rec.haskey
    /\ rec.key \in QualifyingKeys

HasQualifying(ev) ==
    /\ ev.shape = "list"
    /\ \E k \in 1..Len(ev.records) : qualifying(ev.records[k])

\* A target instance is configured: INSTANCE_ID is set, and not to "".
Configured == INSTANCE_ID \notin {"None", ""}

Active(i) == hpc[i] # "idle"
Finished(i) == hpc[i] \in {"returned", "raised"}

NoComputeCalls(i) ==
    /\ hcnt[i].describe = 0
    /\ hcnt[i].start = 0
    /\ hcnt[i].polls = 0

\* C1, as stated: for every event with no qualifying record, lambda_handler
\* returns {ok: true, skipped: true} and issues no compute-service call.
C1_Original ==
    \A i \in Invocations :
        Active(i) /\ ~HasQualifying(event[i]) =>
            /\ NoComputeCalls(i)
            /\ Finished(i) => hres[i] = SkippedResult

\* C1, amended: when INSTANCE_ID is configured, an event with no qualifying
\* record makes lambda_handler return {ok: true, skipped: true}; and with or
\* without INSTANCE_ID such an event causes no compute-service call.
C1_SkipsUnqualified ==
    \A i \in Invocations :
        Active(i) /\ ~HasQualifying(event[i]) =>
            /\ NoComputeCalls(i)
            /\ Finished(i) /\ Configured => hres[i] = SkippedResult
            /\ Finished(i) /\ ~Configured => hres[i] = RaisedResult("RuntimeError")

\* A handler that returned "skipped" for a batch holding a near miss: a
\* storage record whose key has the suffix but the prefix in capitals.
C1_Witness ==
    \E i \in Invocations :
        /\ hres[i] = SkippedResult
        /\ event[i].shape = "list"
        /\ \E k \in 1..Len(event[i].records) :
             event[i].records[k] = Rec(TRUE, "aws:s3", TRUE, K_RAW)

\* C2: every event with at least one qualifying record is processed:
\* _should_process is true of it and, the instance being configured, the
\* handler goes on to describe_instances instead of returning "skipped",
\* whatever the other records are and wherever the qualifying one stands.
C2_QualifyingProcessed ==
    \A i \in Invocations :
        hcnt[i].filter > 0 /\ HasQualifying(event[i]) =>
            /\ _should_process(event[i]) = "True"
            /\ hres[i] # SkippedResult

\* C3: in an invocation that saw the instance state, one start request, for
\* the configured instance, is issued if the state seen is stopped or
\* stopping (it is issued once the handler is past line 39), and none for
\* any other state.
C3_StartOnlyWhenStopped ==
    \A i \in Invocations :
        /\ hcnt[i].start <= 1
        /\ hcnt[i].start = 1 => hcnt[i].target = INSTANCE_ID
        /\ observed[i] = "none" => hcnt[i].start = 0
        /\ observed[i] \in {"stopped", "stopping"} /\ hpc[i] # "start" =>
               hcnt[i].start = 1
        /\ observed[i] \in {"stopped", "stopping"} /\ hpc[i] = "start" =>
               hcnt[i].start = 0
        /\ observed[i] \in InstanceStates \ {"stopped", "stopping"} =>
               hcnt[i].start = 0

\* An invocation that saw the instance stopping, asked once for its start
\* and came to its end.
C3_Witness ==
    \E i \in Invocations :
        /\ observed[i] = "stopping"
        /\ hcnt[i].start = 1
        /\ hpc[i] = "returned"


\* C8: the health wait polls at most MaxAttempts (30) times, Delay (10)
\* seconds apart; {ok: true, instance: id} is returned only by an invocation
\* one of whose polls saw the instance healthy; and an invocation whose
\* MaxAttempts polls all failed to see it healthy has raised, not returned.
C8_BoundedHealthWait ==
    \A i \in Invocations :
        /\ hcnt[i].polls <= MaxAttempts
        /\ hpc[i] = "wait" => hcnt[i].slept = Delay * hcnt[i].polls
        /\ Finished(i) /\ hcnt[i].polls > 0 =>
               hcnt[i].slept = Delay * (hcnt[i].polls - 1)
        /\ hres[i].kind = "return" /\ hres[i].skipped = "absent" =>
               /\ hcnt[i].healthy >= 1
               /\ hres[i] = OkResult(INSTANCE_ID)
        /\ hcnt[i].polls = MaxAttempts /\ hcnt[i].healthy = 0 =>
               /\ hres[i].kind = "raise"
               /\ hres[i].error = "WaiterError"
               /\ hpc[i] = "raised"

\* An invocation that polled MaxAttempts times, never saw the instance
\* healthy, and raised.
C8_Witness ==
    \E i \in Invocations :
        /\ hcnt[i].polls = MaxAttempts
        /\ hcnt[i].healthy = 0
        /\ hcnt[i].slept = Delay * (MaxAttempts - 1)
        /\ hres[i] = RaisedResult("WaiterError")

\* The events whose shape makes the body of _should_process raise.
Malformed(ev) == try_body(ev) = "Raise"

\* C9: _should_process raises for no event shape, it answers true or false;
\* and no failure of lambda_handler is the exception of a malformed event:
\* with INSTANCE_ID configured a malformed event ends in a returned value.
C9_FilterNeverRaises ==
    \A i \in Invocations :
        Active(i) =>
            /\ _should_process(event[i]) \in {"True", "False"}
            /\ hres[i].error # "Exception"
            /\ Finished(i) /\ Malformed(event[i]) /\ Configured =>
                   hres[i] = SkippedResult

\* A handler that returned for an event whose storage record has no key.
C9_Witness ==
    \E i \in Invocations :
        /\ hres[i] = SkippedResult
        /\ event[i].shape = "list"
        /\ Len(event[i].records) >= 1
        /\ event[i].records[1] = Rec(TRUE, "aws:s3", FALSE, <<>>)

\* C10: with no INSTANCE_ID configured lambda_handler raises its
\* configuration error for every event, qualifying or not, before it filters
\* the event and before any compute-service call.
C10_MissingInstanceId ==
    ~Configured =>
        \A i \in Invocations :
            Active(i) =>
                /\ hcnt[i].filter = 0
                /\ NoComputeCalls(i)
                /\ hpc[i] \in {"entry", "raised"}
                /\ hpc[i] = "raised" => hres[i] = RaisedResult("RuntimeError")

\* INSTANCE_ID is set but empty, the event qualifies, and the handler raised.
C10_Witness ==
    \E i \in Invocations :
        /\ INSTANCE_ID = ""
        /\ HasQualifying(event[i])
        /\ hres[i] = RaisedResult("RuntimeError")

-----------------------------------------------------------------------------
(* The claims about wait_for_query, checked under SpecWait.                *)

WaitOver == ppc = "wait_done"

\* The poll that ended the call saw this state within the timeout.
SeenInTime(states) ==
    /\ ~lastobs.resp.error
    /\ lastobs.resp.state \in states
    /\ lastobs.at <= timeout_sec

RaisedRuntimeError ==
    /\ wres.kind = "raise"
    /\ wres.type = "RuntimeError"
    /\ wres.qid = qid
    /\ wres.reason = (IF lastobs.resp.reason = "ABSENT" THEN "Unknown"
                      ELSE lastobs.resp.reason)

RaisedTimeoutError ==
    /\ wres.kind = "raise"
    /\ wres.type = "TimeoutError"
    /\ wres.qid = qid

ReturnedPayload ==
    /\ wres.kind = "return"
    /\ wres.payload = lastobs.resp

\* C4, as stated: wait_for_query has exactly three outcomes: the payload
\* when SUCCEEDED is seen within the timeout, a RuntimeError with the id and
\* the reason when FAILED or CANCELLED is seen, a TimeoutError with the id
\* when no terminal state is reached within the timeout.
C4_Original ==
    WaitOver =>
        /\ ReturnedPayload \/ RaisedRuntimeError \/ RaisedTimeoutError
        /\ SeenInTime({"SUCCEEDED"}) => ReturnedPayload
        /\ SeenInTime({"FAILED", "CANCELLED"}) => RaisedRuntimeError
        /\ ~SeenInTime(TerminalStates) => RaisedTimeoutError

\* C4, amended: wait_for_query has four outcomes, decided by its last poll.
\* A poll that sees SUCCEEDED returns the payload and one that sees FAILED
\* or CANCELLED raises a RuntimeError with the id and the reason ("Unknown"
\* when absent), in both cases even when the timeout has already passed at
\* that poll; a poll that sees a non-terminal state with more than the timeout
\* elapsed raises a TimeoutError with the id, however many polls were made;
\* and an error raised by the status fetch itself leaves the function as it
\* is.  While the loop goes on, the clock read after the last poll was not
\* beyond the timeout.
C4_FourOutcomes ==
    /\ WaitOver /\ lastobs.resp.error =>
           /\ wres.kind = "raise"
           /\ wres.type = "ClientError"
    /\ WaitOver /\ ~lastobs.resp.error /\ lastobs.resp.state = "SUCCEEDED" =>
           ReturnedPayload
    /\ WaitOver /\ ~lastobs.resp.error /\ lastobs.resp.state \in {"FAILED", "CANCELLED"} =>
           /\ RaisedRuntimeError
           /\ wres.state = lastobs.resp.state
    /\ WaitOver /\ ~lastobs.resp.error /\ lastobs.resp.state \in {"QUEUED", "RUNNING"} =>
           /\ RaisedTimeoutError
           /\ lastobs.at > timeout_sec
    /\ WaitOver => npolls >= 1
    /\ ppc = "poll" =>
           /\ wres = NoOutcome
           /\ npolls > 0 => elapsed - SleepSec <= timeout_sec

\* A call that ended in a TimeoutError after several polls.
C4_Witness ==
    /\ WaitOver
    /\ RaisedTimeoutError
    /\ npolls >= 3

-----------------------------------------------------------------------------
(* The claims about main(), checked under SpecPipeline.                    *)

\* What a call of pcalls is: the statement it submits, else its operation.
CallTag(c) == IF c.op = "start_query_execution" THEN c.a[1] ELSE c.op

\* The calls of a whole run, in their order.
RunOrder ==
    <<"CREATE_DB_SQL", "CREATE_TABLE_SQL", "STAGE3_SQL", "copy_object",
      "urlopen", "terminate_instances">>

CallOps == {pcalls[n].op : n \in 1..Len(pcalls)}

MainFailed == pres \notin {"none", "ok"}

\* C5: the run is sequential and fail-stop.  The calls come in the order
\* create-database, create-table, Stage-3 query, copy; a query is submitted
\* only after the one before it was seen SUCCEEDED, and the copy only after
\* the third was; at most one query is outstanding; status polls go to the
\* query just submitted; and once a step has failed main() does nothing more.
C5_SequentialFailStop ==
    /\ Len(pcalls) <= Len(RunOrder)
    /\ \A n \in 1..Len(pcalls) : CallTag(pcalls[n]) = RunOrder[n]
    /\ \A k \in 1..3 :
         /\ qstatus[k] # "none" => Len(pcalls) >= k
         /\ Len(pcalls) > k => qstatus[k] = "SUCCEEDED"
    /\ Cardinality({k \in 1..3 : qstatus[k] = "submitted"}) <= 1
    /\ ppc = "poll" => qstatus[step] = "submitted" /\ Len(pcalls) = step
    /\ npolls > 0 => ppc = "poll"
    /\ MainFailed => ppc = "failed" /\ ~ENABLED NextPipeline

\* The table statement was submitted, its query never ended, and main()
\* failed with the timeout: two calls recorded, the second query outstanding.
C5_Witness ==
    /\ pres = "TimeoutError"
    /\ Len(pcalls) = 2
    /\ qstatus = <<"SUCCEEDED", "submitted", "none">>

\* C6: with BUCKET left at the placeholder, main() fails before any service
\* call: nothing submitted, polled, copied or terminated.
C6_PlaceholderFailsFirst ==
    BUCKET = Sentinel =>
        /\ pcalls = <<>>
        /\ npolls = 0
        /\ \A k \in 1..3 : qstatus[k] = "none" /\ qids[k] = "none"
        /\ ppc \in {"main", "failed"}
        /\ ppc = "failed" => pres = "RuntimeError"

\* main() has failed on the placeholder.
C6_Witness ==
    /\ BUCKET = Sentinel
    /\ ppc = "failed"
    /\ pres = "RuntimeError"

\* C7: self-termination is best-effort.  Once terminate_self has been
\* entered main() completes normally, whether the metadata lookup or the
\* terminate request failed; each failure leaves one warning; and a lookup
\* that failed is followed by no terminate request.
C7_BestEffortTerminate ==
    /\ "urlopen" \in CallOps => ppc = "done" /\ pres = "ok"
    /\ ppc = "done" => pres = "ok" /\ "urlopen" \in CallOps
    /\ "urlopen" \in CallOps /\ "terminate_instances" \notin CallOps =>
           plog = <<"URLError">>
    /\ plog # <<>> => Len(plog) = 1 /\ pres = "ok"
    /\ plog = <<"URLError">> => "terminate_instances" \notin CallOps
    /\ plog = <<"ClientError">> => "terminate_instances" \in CallOps

\* The metadata lookup failed, the warning was printed, main() ended well.
C7_Witness ==
    /\ plog = <<"URLError">>
    /\ pres = "ok"
    /\ ppc = "done"
    /\ "copy_object" \in CallOps

-----------------------------------------------------------------------------
(* Logging of the errors of lambda_handler, checked under SpecHandler.     *)

\* C11: every error lambda_handler propagates from describe_instances,
\* start_instances or the health wait was logged before it left the handler.
C11_EveryErrorLogged ==
    \A i \in Invocations :
        hres[i].kind = "raise" /\ hcnt[i].describe > 0 => hcnt[i].logs >= 1

-----------------------------------------------------------------------------
(* Termination of wait_for_query, checked under SpecWaitFair.              *)

\* The polls a call can make at most: it sleeps SleepSec after each poll
\* but the last, and goes on only while the clock is within the timeout.
MostPolls == timeout_sec \div SleepSec + 2

C12_Exits ==
    /\ npolls <= MostPolls
    /\ ppc = "poll" /\ npolls > 0 => elapsed - SleepSec <= timeout_sec
    /\ WaitOver /\ ~lastobs.resp.error =>
           \/ lastobs.resp.state = "SUCCEEDED" /\ wres.kind = "return"
           \/ lastobs.resp.state \in {"FAILED", "CANCELLED"}
                  /\ wres.type = "RuntimeError"
           \/ lastobs.resp.state \in {"QUEUED", "RUNNING"}
                  /\ lastobs.at > timeout_sec /\ wres.type = "TimeoutError"

\* C12: wait_for_query always terminates when every status fetch comes back
\* and the clock advances.  The loop is left only on SUCCEEDED, on FAILED or
\* CANCELLED, or with the time elapsed beyond the timeout; a query that stays
\* non-terminal is timed out at the first poll whose elapsed time is greater
\* than the timeout (every poll before it read a clock within the timeout),
\* so after MostPolls polls at the latest.
C12_Terminates == []C12_Exits /\ <>WaitOver

\* A query that never ended, timed out at the last poll the bound allows.
C12_Witness ==
    /\ WaitOver
    /\ wres.type = "TimeoutError"
    /\ lastobs.at > timeout_sec
    /\ timeout_sec >= 4
    /\ npolls = MostPolls

-----------------------------------------------------------------------------
(* The copy step of main(), checked under SpecPipeline.                    *)

CopyCalls == {n \in 1..Len(pcalls) : pcalls[n].op = "copy_object"}

CopyStepDone == ppc \in {"terminate_self", "done"}

\* C13: the copy step issues exactly one copy request.  Its source key is
\* athena-results/<id>.csv with <id> the execution id the third (analytical)
\* submission returned, not the id of the database or table statement; its
\* destination key is <production prefix>state_counts_<timestamp>.csv in the
\* same bucket; the source key is the same whatever ATHENA_OUTPUT is; and no
\* delete is issued.
C13_CopyKeys ==
    /\ Cardinality(CopyCalls) <= 1
    /\ CopyStepDone => Cardinality(CopyCalls) = 1
    /\ \A n \in CopyCalls :
         /\ qids[3] \notin {"none", qids[1], qids[2]}
         /\ pcalls[n].a = <<BUCKET, "athena-results/", qids[3], ".csv">>
         /\ \E ts \in Timestamps :
              pcalls[n].b = <<BUCKET, "output/prod/", "state_counts_", ts, ".csv">>
         /\ pcalls[n].a[1] = pcalls[n].b[1]
    /\ CallOps \subseteq {"start_query_execution", "copy_object", "urlopen",
                          "terminate_instances"}

\* The copy was made in a run whose queries wrote their results somewhere
\* other than s3://<bucket>/athena-results/.
C13_Witness ==
    /\ CopyStepDone
    /\ CopyCalls # {}
    /\ ATHENA_OUTPUT = <<"s3://other-bucket/custom-results/">>
    /\ \A n \in 1..3 : pcalls[n].b = ATHENA_OUTPUT

-----------------------------------------------------------------------------
(* Two invocations of lambda_handler at once, checked under SpecConcurrent. *)

RECURSIVE StartsOf(_)
StartsOf(S) ==
    IF S = {} THEN 0
    ELSE LET i == CHOOSE x \in S : TRUE
         IN  hcnt[i].start + StartsOf(S \ {i})

\* C14: each invocation issues at most one start request, and only after it
\* saw the instance stopped or stopping, so the start requests in all never
\* outnumber the invocations; nothing keeps two invocations from both seeing
\* the instance stopped and both asking for the same instance to be started.
C14_OneStartEach ==
    /\ \A i \in Invocations :
         /\ hcnt[i].start <= 1
         /\ hcnt[i].start = 1 =>
                /\ observed[i] \in {"stopped", "stopping"}
                /\ hcnt[i].target = INSTANCE_ID
    /\ StartsOf(Invocations) <= Cardinality(Invocations)

\* Both invocations saw the instance stopped, both had their start request
\* accepted, and both went on to the health wait.
C14_Witness ==
    /\ \A i \in Invocations :
         /\ observed[i] = "stopped"
         /\ hcnt[i].start = 1
         /\ hcnt[i].target = INSTANCE_ID
         /\ hres[i].kind # "raise"
         /\ hpc[i] \in {"wait", "returned"}
    /\ StartsOf(Invocations) = 2
    /\ inst_state \in {"pending", "running"}

-----------------------------------------------------------------------------
(* When main() asks for the instance to be terminated (SpecPipeline).      *)

TerminateAsked == "terminate_instances" \in CallOps

LastCall == pcalls[Len(pcalls)]

\* C15: the terminate request is issued only in a run whose copy was made
\* (so BUCKET was set and the three queries were seen SUCCEEDED); a run that
\* fails at the configuration check, at one of the three queries (a poll
\* timeout included) or at the copy never looks up the instance id, never
\* issues a terminate request, and does nothing more.
C15_TerminateOnlyAfterCopy ==
    /\ ppc = "terminate_self" =>
           /\ ~MainFailed
           /\ Len(pcalls) = 4
           /\ LastCall.op = "copy_object"
    /\ TerminateAsked =>
           /\ ppc = "done"
           /\ pres = "ok"
           /\ BUCKET # "YOUR_S3_BUCKET"
           /\ \A k \in 1..3 : qstatus[k] = "SUCCEEDED"
           /\ Len(pcalls) = 6
           /\ pcalls[4].op = "copy_object"
    /\ MainFailed =>
           /\ ppc = "failed"
           /\ ~TerminateAsked
           /\ "urlopen" \notin CallOps
           /\ Len(pcalls) <= 4
           /\ ~ENABLED TerminateSelf

\* The copy request was refused after three good queries: main() has ended
\* with the ClientError and the instance was not asked to terminate.
C15_Witness ==
    /\ pres = "ClientError"
    /\ ppc = "failed"
    /\ Len(pcalls) = 4
    /\ LastCall.op = "copy_object"
    /\ \A k \in 1..3 : qstatus[k] = "SUCCEEDED"
    /\ ~TerminateAsked

-----------------------------------------------------------------------------
(* The order of the two tests in wait_for_query (SpecWait).                *)

LastPollLate == lastobs.at > timeout_sec

LastPollTerminal ==
    /\ ~lastobs.resp.error
    /\ lastobs.resp.state \in {"SUCCEEDED", "FAILED", "CANCELLED"}

\* C16: on every turn of the loop of wait_for_query the state is looked at
\* before the clock.  So a call never ends without a status fetch, not even
\* with a timeout of 0; a TimeoutError comes only straight after a poll that
\* saw a non-terminal state; and a poll that sees a terminal state decides
\* the outcome, the payload for SUCCEEDED and a RuntimeError otherwise, also
\* when the time at that poll is already beyond the timeout.
C16_StateBeforeClock ==
    /\ WaitOver => npolls >= 1 /\ lastobs # NoPoll
    /\ ~WaitOver /\ npolls = 0 => wres.kind = "none" /\ ENABLED WaitPoll
    /\ WaitOver /\ wres.type = "TimeoutError" =>
           /\ ~lastobs.resp.error
           /\ lastobs.resp.state \in {"QUEUED", "RUNNING"}
    /\ WaitOver /\ LastPollTerminal /\ LastPollLate =>
           /\ wres.type # "TimeoutError"
           /\ lastobs.resp.state = "SUCCEEDED" => wres.kind = "return"
           /\ lastobs.resp.state # "SUCCEEDED" =>
                  wres.kind = "raise" /\ wres.type = "RuntimeError"

\* With a timeout of 0 the first fetch came back late and saw FAILED: the
\* call ended in the RuntimeError, not in a TimeoutError.
C16_Witness ==
    /\ WaitOver
    /\ timeout_sec = 0
    /\ npolls = 1
    /\ LastPollLate
    /\ lastobs.resp.state = "FAILED"
    /\ wres.type = "RuntimeError"


=============================================================================
